---- MODULE Spec2Model ----
(***************************************************************************)
(* A model of the sqlquerybob query builder (sqlquerybob.go, errors).      *)
(*                                                                         *)
(* Go strings are modelled as sequences of one-character strings, so that  *)
(* strings.Split, strings.ToUpper, strings.Repeat and fmt.Sprintf("%d")    *)
(* are computed character by character as the library computes them.      *)
(* Opaque bound values (interface{}) are modelled as atoms.                *)
(***************************************************************************)
EXTENDS Integers, Sequences, FiniteSets, TLC

----------------------------------------------------------------------------
(* Bounds of the exploration *)

\* longest columns / values / returningColumns / returnValues sequence explored
MaxColumns == 2

\* longest criteria sequence explored
MaxCriteria == 2

\* longest joinTables sequence explored
MaxJoins == 1

\* longest orderBy sequence explored
MaxOrderBy == 1

\* GenerateQuery is explored while placeholderCount is at most this
MaxPlaceholderCount == 1

\* the same cap where a Builder is generated from again and again
MaxRepeatedCount == 2

\* longest sequence of configuration calls recorded, where calls are recorded
MaxCalls == 3

----------------------------------------------------------------------------
(* Enumerations of sqlquerybob.go *)

MYSQL == 0
SQLITE == 1
POSTGRES == 2
ORACLE == 3

database == {MYSQL, SQLITE, POSTGRES, ORACLE}

selectQry == 0
insertQry == 1
updateQry == 2
deleteQry == 3

queryTypes == {selectQry, insertQry, updateQry, deleteQry}

ascending == 0
descending == 1

\* validOperators with != written for <>
validOperatorsWithBang ==
    <<"=","/",">","/","<","/",">","=","/","<","=","/","!","=","/",
      "I","N","/","B","E","T","W","E","E","N","/","L","I","K","E">>

\* "=/>/</>=/<=/<>/IN/BETWEEN/LIKE"
validOperators ==
    <<"=","/",">","/","<","/",">","=","/","<","=","/","<",">","/",
      "I","N","/","B","E","T","W","E","E","N","/","L","I","K","E">>

----------------------------------------------------------------------------
(* The Go library functions the builder calls *)

\* strings.Split(s, sep) for a one-character separator: the pieces of s
\* between the separators, one more piece than there are separators.
RECURSIVE SplitFrom(_, _, _, _)
SplitFrom(s, sep, i, piece) ==
    IF i > Len(s) THEN <<piece>>
    ELSE IF s[i] = sep THEN <<piece>> \o SplitFrom(s, sep, i + 1, <<>>)
    ELSE SplitFrom(s, sep, i + 1, Append(piece, s[i]))

Split(s, sep) == SplitFrom(s, sep, 1, <<>>)

LowerCase ==
    <<"a","b","c","d","e","f","g","h","i","j","k","l","m",
      "n","o","p","q","r","s","t","u","v","w","x","y","z">>

UpperCase ==
    <<"A","B","C","D","E","F","G","H","I","J","K","L","M",
      "N","O","P","Q","R","S","T","U","V","W","X","Y","Z">>

\* strings.ToUpper on ASCII text: lower-case letters are mapped to upper
\* case, every other character is kept.
ToUpper(s) ==
    [i \in 1..Len(s) |->
        IF \E k \in 1..Len(LowerCase) : LowerCase[k] = s[i]
        THEN UpperCase[CHOOSE k \in 1..Len(LowerCase) : LowerCase[k] = s[i]]
        ELSE s[i]]

\* strings.Repeat(s, count) for count >= 0 (a negative count panics; the
\* caller models the panic).
RECURSIVE Repeat(_, _)
Repeat(s, count) == IF count <= 0 THEN <<>> ELSE s \o Repeat(s, count - 1)

Digits == <<"0","1","2","3","4","5","6","7","8","9">>

\* fmt.Sprintf("%d", n) for n >= 0: the decimal digits of n.
RECURSIVE FormatInt(_)
FormatInt(n) ==
    IF n < 10 THEN <<Digits[n + 1]>>
    ELSE FormatInt(n \div 10) \o <<Digits[(n % 10) + 1]>>

----------------------------------------------------------------------------
(* The errors of the package *)

nil == [type |-> "nil"]

\* NewBadColumnsValuesComboError with the two counts stored in each
\* other's field
NewBadColumnsValuesComboErrorSwapped(columnCount, valueCount) ==
    [type |-> "ErrBadColumnsValuesCombo",
     columnCount |-> valueCount, valueCount |-> columnCount]

NewBadColumnsValuesComboError(columnCount, valueCount) ==
    [type |-> "ErrBadColumnsValuesCombo",
     columnCount |-> columnCount, valueCount |-> valueCount]

NewInvalidOperatorError(operator) ==
    [type |-> "ErrInvalidSqlOperator", operator |-> operator]

ErrFirstCriterionIsOr == [type |-> "ErrFirstCriterionIsOr"]

ErrDBEngineDoesNotSupportReturning ==
    [type |-> "ErrDBEngineDoesNotSupportReturning"]

----------------------------------------------------------------------------
(* The Builder and the value returned by the last GenerateQuery call *)

VARIABLES
    db,                 \* Builder.db
    placeholderCount,   \* Builder.placeholderCount
    queryType,          \* Builder.queryType
    table,              \* Builder.table
    joinTables,         \* Builder.joinTables
    columns,            \* Builder.columns
    returningColumns,   \* Builder.returningColumns
    values,             \* Builder.values
    returnValues,       \* Builder.returnValues
    criteria,           \* Builder.criteria
    orderBy,            \* Builder.orderBy
    limit,              \* Builder.limit
    offset,             \* Builder.offset
    given,              \* the operator arguments of Where/OrWhere as passed
    passed,             \* names passed to the last call, when it was Select
                        \* or Returning
    ret,                \* outcome of the last call, when it was GenerateQuery
    calls               \* the appending calls made so far, in call order,
                        \* when the behaviour records them (calls.on)

builder ==
    <<db, placeholderCount, queryType, table, joinTables, columns,
      returningColumns, values, returnValues, criteria, orderBy, limit, offset>>

vars == <<builder, given, passed, ret, calls>>

----------------------------------------------------------------------------
(* Clause generation.  Every generator returns the clause text and the     *)
(* error; the generators that allocate placeholders also return the value  *)
(* placeholderCount has when they return, and whether they panicked.       *)

\* addPlaceholder called when placeholderCount = count: the incremented
\* counter and the token of the dialect.
addPlaceholder(count) ==
    [count |-> count + 1,
     text  |-> CASE db = POSTGRES -> <<"$">> \o FormatInt(count + 1)
                 [] db = ORACLE   -> <<":">> \o FormatInt(count + 1)
                 [] OTHER         -> <<"?">>]

\* for i, column := range cols { qry += column; if i < len(cols)-1 { qry += "," } }
RECURSIVE columnList(_, _)
columnList(cols, i) ==
    IF i > Len(cols) THEN <<>>
    ELSE cols[i] \o (IF i - 1 < Len(cols) - 1 THEN <<",">> ELSE <<>>)
                 \o columnList(cols, i + 1)

generateSelectClause ==
    IF Len(columns) # Len(values)
    THEN [qry |-> <<>>,
          err |-> NewBadColumnsValuesComboError(Len(columns), Len(values))]
    ELSE [qry |-> <<"S","E","L","E","C","T"," ">> \o columnList(columns, 1),
          err |-> nil]

\* generateReturningClause with the arity check made before the dialect
\* check
generateReturningClauseArityFirst ==
    IF Len(returningColumns) = 0
    THEN [qry |-> <<>>, err |-> nil]
    ELSE IF Len(returningColumns) # Len(returnValues)
    THEN [qry |-> <<>>,
          err |-> NewBadColumnsValuesComboError(Len(returningColumns),
                                                Len(returnValues))]
    ELSE IF db # POSTGRES /\ db # ORACLE
    THEN [qry |-> <<>>, err |-> ErrDBEngineDoesNotSupportReturning]
    ELSE [qry |-> <<" ","R","E","T","U","R","N","I","N","G"," ">>
                    \o columnList(returningColumns, 1),
          err |-> nil]

generateReturningClause ==
    IF Len(returningColumns) = 0
    THEN [qry |-> <<>>, err |-> nil]
    ELSE IF db # POSTGRES /\ db # ORACLE
    THEN [qry |-> <<>>, err |-> ErrDBEngineDoesNotSupportReturning]
    ELSE IF Len(returningColumns) # Len(returnValues)
    THEN [qry |-> <<>>,
          err |-> NewBadColumnsValuesComboError(Len(returningColumns),
                                                Len(returnValues))]
    ELSE [qry |-> <<" ","R","E","T","U","R","N","I","N","G"," ">>
                    \o columnList(returningColumns, 1),
          err |-> nil]

RECURSIVE joinList(_)
joinList(i) ==
    IF i > Len(joinTables) THEN <<>>
    ELSE <<" ">> \o joinTables[i].joinType
           \o <<" ","J","O","I","N"," ">> \o joinTables[i].table
           \o <<" ","O","N"," ">> \o joinTables[i].column
           \o <<"=">> \o joinTables[i].fkey
           \o joinList(i + 1)

generateFromAndJoinClause ==
    <<" ","F","R","O","M"," ">> \o table \o joinList(1)

operatorIsValid(operator) ==
    LET os == Split(validOperators, "/")
    IN  \E k \in 1..Len(os) : operator = os[k]

\* firstCriterionIsOr that lets a leading OR through, as if it were AND
firstCriterionIsOrIgnored(ci) == FALSE

\* if ci == 0 && criterion.or (ci counts from 1 here)
firstCriterionIsOr(ci) == ci - 1 = 0 /\ criteria[ci].or

\* combinator that writes AND before every later criterion
combinatorAlwaysAnd(ci) ==
    IF ci - 1 # 0 /\ ci - 1 < Len(criteria)
    THEN <<" ","A","N","D"," ">>
    ELSE <<>>

\* The combinator written before criterion ci.
combinator(ci) ==
    IF ci - 1 # 0 /\ ci - 1 < Len(criteria)
    THEN IF criteria[ci].or
         THEN <<" ","O","R"," ">>
         ELSE <<" ","A","N","D"," ">>
    ELSE <<>>

\* The column and the operator of criterion ci, a space between them for
\* the operators spelled as words.
comparison(ci) ==
    LET operator == criteria[ci].operator
    IN  criteria[ci].column
          \o (IF \/ operator = <<"B","E","T","W","E","E","N">>
                 \/ operator = <<"I","N">>
                 \/ operator = <<"L","I","K","E">>
              THEN <<" ">> ELSE <<>>)
          \o operator

\* The switch on the operator of criterion ci: the placeholder text, the
\* counter after it, and whether strings.Repeat panicked.  For IN both
\* addPlaceholder calls are evaluated, left to right, before strings.Repeat
\* is entered, and strings.Repeat panics on a negative count.
operands(ci, count) ==
    LET operator == criteria[ci].operator
        p1 == addPlaceholder(count)
        p2 == addPlaceholder(p1.count)
    IN  IF operator = <<"L","I","K","E">>
        THEN [qry |-> <<" ">> \o p1.text, count |-> p1.count, panic |-> FALSE]
        ELSE IF operator = <<"B","E","T","W","E","E","N">>
        THEN [qry |-> <<" ">> \o p1.text \o <<" ","A","N","D"," ">> \o p2.text,
              count |-> p2.count, panic |-> FALSE]
        ELSE IF operator = <<"I","N">>
        THEN IF Len(criteria[ci].values) - 1 < 0
             THEN [qry |-> <<>>, count |-> p2.count, panic |-> TRUE]
             ELSE [qry |-> <<" ","(">> \o p1.text
                             \o Repeat(<<",">> \o p2.text,
                                       Len(criteria[ci].values) - 1)
                             \o <<")">>,
                   count |-> p2.count, panic |-> FALSE]
        ELSE [qry |-> p1.text, count |-> p1.count, panic |-> FALSE]

\* The loop of generateWhereClause from criterion ci (1-based) on, with the
\* text built and the counter reached so far.
RECURSIVE whereLoop(_, _, _)
whereLoop(ci, qry, count) ==
    IF ci > Len(criteria)
    THEN [qry |-> qry, err |-> nil, count |-> count, panic |-> FALSE]
    ELSE IF firstCriterionIsOr(ci)
    THEN [qry |-> <<>>, err |-> ErrFirstCriterionIsOr,
          count |-> count, panic |-> FALSE]
    ELSE IF ~operatorIsValid(criteria[ci].operator)
    THEN [qry |-> <<>>,
          err |-> NewInvalidOperatorError(criteria[ci].operator),
          count |-> count, panic |-> FALSE]
    ELSE LET ps == operands(ci, count)
         IN  IF ps.panic
             THEN [qry |-> <<>>, err |-> nil,
                   count |-> ps.count, panic |-> TRUE]
             ELSE whereLoop(ci + 1,
                            qry \o combinator(ci) \o comparison(ci) \o ps.qry,
                            ps.count)

generateWhereClause(count) ==
    IF Len(criteria) = 0
    THEN [qry |-> <<>>, err |-> nil, count |-> count, panic |-> FALSE]
    ELSE whereLoop(1, <<" ","W","H","E","R","E"," ">>, count)

RECURSIVE orderList(_)
orderList(ci) ==
    IF ci > Len(orderBy) THEN <<>>
    ELSE orderBy[ci].column
           \o (IF orderBy[ci].direction = descending
               THEN <<" ","D","E","S","C">> ELSE <<" ","A","S","C">>)
           \o (IF ci - 1 < Len(orderBy) - 1 THEN <<",">> ELSE <<>>)
           \o orderList(ci + 1)

generateOrderByClause ==
    IF Len(orderBy) = 0 THEN <<>>
    ELSE <<" ","O","R","D","E","R"," ","B","Y"," ">> \o orderList(1)

\* generateLimitClause that also writes the clause for an offset without a
\* limit
generateLimitClauseForOffset ==
    IF limit = 0 /\ offset = 0 THEN <<>>
    ELSE <<" ","L","I","M","I","T"," ">> \o FormatInt(limit)
           \o (IF offset > 0 THEN <<",">> \o FormatInt(offset) ELSE <<>>)

generateLimitClause ==
    IF limit = 0 THEN <<>>
    ELSE <<" ","L","I","M","I","T"," ">> \o FormatInt(limit)
           \o (IF offset > 0 THEN <<",">> \o FormatInt(offset) ELSE <<>>)

\* for i := range qb.values { qry += qb.addPlaceholder(); if i < len-1 { qry += "," } }
RECURSIVE insertPlaceholders(_, _)
insertPlaceholders(i, count) ==
    IF i > Len(values) THEN [qry |-> <<>>, count |-> count]
    ELSE LET p == addPlaceholder(count)
             rest == insertPlaceholders(i + 1, p.count)
         IN  [qry |-> p.text
                        \o (IF i - 1 < Len(values) - 1 THEN <<",">> ELSE <<>>)
                        \o rest.qry,
              count |-> rest.count]

generateInsertClause(count) ==
    IF Len(columns) # Len(values)
    THEN [qry |-> <<>>,
          err |-> NewBadColumnsValuesComboError(Len(columns), Len(values)),
          count |-> count]
    ELSE LET ps == insertPlaceholders(1, count)
         IN  [qry |-> <<"I","N","S","E","R","T"," ","I","N","T","O"," ">>
                        \o table \o <<" ","(">> \o columnList(columns, 1)
                        \o <<")"," ","V","A","L","U","E","S"," ","(">>
                        \o ps.qry \o <<")">>,
              err |-> nil,
              count |-> ps.count]

\* for i, column := range qb.columns { qry += column + "=" + qb.addPlaceholder(); ... }
RECURSIVE updateAssignments(_, _)
updateAssignments(i, count) ==
    IF i > Len(columns) THEN [qry |-> <<>>, count |-> count]
    ELSE LET p == addPlaceholder(count)
             rest == updateAssignments(i + 1, p.count)
         IN  [qry |-> columns[i] \o <<"=">> \o p.text
                        \o (IF i - 1 < Len(columns) - 1 THEN <<",">> ELSE <<>>)
                        \o rest.qry,
              count |-> rest.count]

generateUpdateClause(count) ==
    IF Len(columns) # Len(values)
    THEN [qry |-> <<>>,
          err |-> NewBadColumnsValuesComboError(Len(columns), Len(values)),
          count |-> count]
    ELSE LET as == updateAssignments(1, count)
         IN  [qry |-> <<"U","P","D","A","T","E"," ">> \o table
                        \o <<" ","S","E","T"," ">> \o as.qry,
              err |-> nil,
              count |-> as.count]

generateDeleteClause == <<"D","E","L","E","T","E">>

----------------------------------------------------------------------------
(* Assembly per statement kind.  A routine that stops on an error returns  *)
(* the empty text and the error; the counter keeps what the clauses that   *)
(* ran before have added.                                                  *)

failed(err, count) ==
    [qry |-> <<>>, err |-> err, count |-> count, panic |-> FALSE]

panicked(count) ==
    [qry |-> <<>>, err |-> nil, count |-> count, panic |-> TRUE]

\* generateSelectQry that writes the pagination clause before the ORDER BY
\* clause
generateSelectQryLimitBeforeOrder(count) ==
    LET selectClause == generateSelectClause
        whereClause == generateWhereClause(count)
    IN  IF selectClause.err # nil THEN failed(selectClause.err, count)
        ELSE IF whereClause.panic THEN panicked(whereClause.count)
        ELSE IF whereClause.err # nil
        THEN failed(whereClause.err, whereClause.count)
        ELSE [qry |-> selectClause.qry \o generateFromAndJoinClause
                        \o whereClause.qry \o generateLimitClause
                        \o generateOrderByClause,
              err |-> whereClause.err,
              count |-> whereClause.count,
              panic |-> FALSE]

generateSelectQry(count) ==
    LET selectClause == generateSelectClause
        whereClause == generateWhereClause(count)
    IN  IF selectClause.err # nil THEN failed(selectClause.err, count)
        ELSE IF whereClause.panic THEN panicked(whereClause.count)
        ELSE IF whereClause.err # nil
        THEN failed(whereClause.err, whereClause.count)
        ELSE [qry |-> selectClause.qry \o generateFromAndJoinClause
                        \o whereClause.qry \o generateOrderByClause
                        \o generateLimitClause,
              err |-> whereClause.err,
              count |-> whereClause.count,
              panic |-> FALSE]

\* generateDeleteQry that looks at the RETURNING clause before the filter
generateDeleteQryReturningFirst(count) ==
    LET whereClause == generateWhereClause(count)
        returningClause == generateReturningClause
    IN  IF returningClause.err # nil
        THEN failed(returningClause.err, count)
        ELSE IF whereClause.panic THEN panicked(whereClause.count)
        ELSE IF whereClause.err # nil
        THEN failed(whereClause.err, whereClause.count)
        ELSE [qry |-> generateDeleteClause \o generateFromAndJoinClause
                        \o whereClause.qry \o returningClause.qry,
              err |-> returningClause.err,
              count |-> whereClause.count,
              panic |-> FALSE]

generateDeleteQry(count) ==
    LET whereClause == generateWhereClause(count)
        returningClause == generateReturningClause
    IN  IF whereClause.panic THEN panicked(whereClause.count)
        ELSE IF whereClause.err # nil
        THEN failed(whereClause.err, whereClause.count)
        ELSE IF returningClause.err # nil
        THEN failed(returningClause.err, whereClause.count)
        ELSE [qry |-> generateDeleteClause \o generateFromAndJoinClause
                        \o whereClause.qry \o returningClause.qry,
              err |-> returningClause.err,
              count |-> whereClause.count,
              panic |-> FALSE]

\* generateUpdateQry that returns the text built so far, not "", when the
\* RETURNING clause fails
generateUpdateQryKeepingText(count) ==
    LET updateClause == generateUpdateClause(count)
        whereClause == generateWhereClause(updateClause.count)
        returningClause == generateReturningClause
    IN  IF updateClause.err # nil
        THEN failed(updateClause.err, updateClause.count)
        ELSE IF whereClause.panic THEN panicked(whereClause.count)
        ELSE IF whereClause.err # nil
        THEN failed(whereClause.err, whereClause.count)
        ELSE IF returningClause.err # nil
        THEN [qry |-> updateClause.qry \o whereClause.qry,
              err |-> returningClause.err,
              count |-> whereClause.count,
              panic |-> FALSE]
        ELSE [qry |-> updateClause.qry \o whereClause.qry
                        \o returningClause.qry,
              err |-> returningClause.err,
              count |-> whereClause.count,
              panic |-> FALSE]

\* generateUpdateQry that generates the filter clause before the SET clause
\* and then writes them in the usual order
generateUpdateQryFilterFirst(count) ==
    LET whereClause == generateWhereClause(count)
        updateClause == generateUpdateClause(whereClause.count)
        returningClause == generateReturningClause
    IN  IF updateClause.err # nil
        THEN failed(updateClause.err, count)
        ELSE IF whereClause.panic THEN panicked(whereClause.count)
        ELSE IF whereClause.err # nil
        THEN failed(whereClause.err, whereClause.count)
        ELSE IF returningClause.err # nil
        THEN failed(returningClause.err, updateClause.count)
        ELSE [qry |-> updateClause.qry \o whereClause.qry
                        \o returningClause.qry,
              err |-> returningClause.err,
              count |-> updateClause.count,
              panic |-> FALSE]

generateUpdateQry(count) ==
    LET updateClause == generateUpdateClause(count)
        whereClause == generateWhereClause(updateClause.count)
        returningClause == generateReturningClause
    IN  IF updateClause.err # nil
        THEN failed(updateClause.err, updateClause.count)
        ELSE IF whereClause.panic THEN panicked(whereClause.count)
        ELSE IF whereClause.err # nil
        THEN failed(whereClause.err, whereClause.count)
        ELSE IF returningClause.err # nil
        THEN failed(returningClause.err, whereClause.count)
        ELSE [qry |-> updateClause.qry \o whereClause.qry
                        \o returningClause.qry,
              err |-> returningClause.err,
              count |-> whereClause.count,
              panic |-> FALSE]

\* generateInsertQry that generates a filter clause as generateUpdateQry
\* does
generateInsertQryWithFilter(count) ==
    LET insertClause == generateInsertClause(count)
        whereClause == generateWhereClause(insertClause.count)
        returningClause == generateReturningClause
    IN  IF insertClause.err # nil
        THEN failed(insertClause.err, insertClause.count)
        ELSE IF whereClause.panic THEN panicked(whereClause.count)
        ELSE IF whereClause.err # nil
        THEN failed(whereClause.err, whereClause.count)
        ELSE IF returningClause.err # nil
        THEN failed(returningClause.err, whereClause.count)
        ELSE [qry |-> insertClause.qry \o whereClause.qry
                        \o returningClause.qry,
              err |-> nil,
              count |-> whereClause.count,
              panic |-> FALSE]

generateInsertQry(count) ==
    LET insertClause == generateInsertClause(count)
        returningClause == generateReturningClause
    IN  IF insertClause.err # nil
        THEN failed(insertClause.err, insertClause.count)
        ELSE IF returningClause.err # nil
        THEN failed(returningClause.err, insertClause.count)
        ELSE [qry |-> insertClause.qry \o returningClause.qry,
              err |-> nil,
              count |-> insertClause.count,
              panic |-> FALSE]

\* The switch of GenerateQuery.
generate(count) ==
    CASE queryType = selectQry -> generateSelectQry(count)
      [] queryType = insertQry -> generateInsertQry(count)
      [] queryType = updateQry -> generateUpdateQry(count)
      [] queryType = deleteQry -> generateDeleteQry(count)

----------------------------------------------------------------------------
(* Accessors *)

Values == values

ReturningValues == returnValues

RECURSIVE criteriaValues(_)
criteriaValues(i) ==
    IF i > Len(criteria) THEN <<>>
    ELSE criteria[i].values \o criteriaValues(i + 1)

Criteria == criteriaValues(1)

----------------------------------------------------------------------------
(* Arguments the calls are explored with *)

\* unqualified, qualified and doubly qualified column names
ColumnNames == {<<"c">>, <<"u",".","c">>, <<"s",".","u",".","c">>}

\* the variadic name lists of Select and Returning
NameLists ==
    {<<n>> : n \in ColumnNames}
        \cup {<<<<"c">>, <<"u",".","c">>>>, <<<<"s",".","u",".","c">>, <<"c">>>>}

\* the variadic name lists of Set
SetLists == {<<<<"c">>>>}

\* the variadic value lists of To and of Into
ToLists == {<<"v">>, <<"v", "v">>}
IntoLists == {<<"p">>, <<"p", "p">>}

\* the (operator, values...) arguments of Where: a symbolic operator, IN in
\* lower case with no and with three values, BETWEEN with two values and
\* with one, and an operator outside the list
WhereArgs ==
    {<< <<"=">>, <<"w">> >>,
     << <<"i","n">>, <<>> >>,
     << <<"i","n">>, <<"w","w","w">> >>,
     << <<"B","E","T","W","E","E","N">>, <<"w","w">> >>,
     << <<"B","E","T","W","E","E","N">>, <<"w">> >>,
     << <<"!","=">>, <<"w">> >>}

\* the (operator, values...) arguments of OrWhere
OrWhereArgs ==
    {<< <<"=">>, <<"w">> >>,
     << <<"!","=">>, <<"w">> >>}

\* operator strings a caller may pass: the nine listed ones, spellings of
\* them in lower and mixed case, and strings outside the list
OperatorStrings ==
    {<<"=">>, <<">">>, <<"<">>, <<">","=">>, <<"<","=">>, <<"<",">">>,
     <<"I","N">>, <<"B","E","T","W","E","E","N">>, <<"L","I","K","E">>,
     <<"i","n">>, <<"l","i","k","e">>, <<"B","e","t","w","e","e","n">>,
     <<"!","=">>, <<"i","n","s">>, <<"=","=">>, <<"=","/",">">>, <<>>,
     <<"N","O","T"," ","I","N">>, <<"I">>, <<"/">>}

\* the (limit, offset) arguments of Limit
LimitArgs == {<<0, 0>>, <<0, 1>>, <<1, 0>>, <<10, 12>>}

----------------------------------------------------------------------------
(* The calls *)

\* The struct Where and OrWhere append.
newCriterion(column, operator, vs, or) ==
    [column   |-> column,
     operator |-> ToUpper(operator),
     values   |-> vs,
     or       |-> or]

\* calls after one more appending call, and whether the record has room
\* for it
recorded(op, args) ==
    IF calls.on
    THEN [calls EXCEPT !.log = Append(@, [op |-> op, args |-> args])]
    ELSE calls

roomForCall == calls.on => Len(calls.log) < MaxCalls

\* ret when the last call was not GenerateQuery
NoCall == [status |-> "none", qry |-> <<>>, err |-> nil, before |-> 0]

\* NewSelect, NewInsert, NewUpdate, NewDelete: a Builder of one kind on
\* table "t", every other field at its zero value.
Init ==
    /\ queryType \in queryTypes
    /\ table = <<"t">>
    /\ db = MYSQL
    /\ placeholderCount = 0
    /\ joinTables = <<>>
    /\ columns = <<>>
    /\ returningColumns = <<>>
    /\ values = <<>>
    /\ returnValues = <<>>
    /\ criteria = <<>>
    /\ orderBy = <<>>
    /\ limit = 0
    /\ offset = 0
    /\ given = <<>>
    /\ passed = <<>>
    /\ ret = NoCall
    /\ calls = [on |-> FALSE, log |-> <<>>]

\* A Builder right after its constructor and one Where call whose
\* (operator, values...) arguments are in args.
InitWhere(args) ==
    /\ queryType \in queryTypes
    /\ table = <<"t">>
    /\ db = MYSQL
    /\ placeholderCount = 0
    /\ joinTables = <<>>
    /\ columns = <<>>
    /\ returningColumns = <<>>
    /\ values = <<>>
    /\ returnValues = <<>>
    /\ \E a \in args :
          /\ criteria = <<newCriterion(<<"c">>, a[1], a[2], FALSE)>>
          /\ given = <<a[1]>>
    /\ orderBy = <<>>
    /\ limit = 0
    /\ offset = 0
    /\ passed = <<>>
    /\ ret = NoCall
    /\ calls = [on |-> FALSE, log |-> <<>>]

\* ForDatabase, and ForMySQL, ForPostgres, ForOracle, ForSQLite through it
ForDatabase ==
    \E d \in database :
        /\ db' = d
        /\ passed' = <<>>
        /\ ret' = NoCall
        /\ UNCHANGED <<placeholderCount, queryType, table, joinTables, columns,
                       returningColumns, values, returnValues, criteria,
                       orderBy, limit, offset, given, calls>>

\* The loop of Select and of Returning: what the names add to the sequence.
RECURSIVE qualified(_, _)
qualified(names, i) ==
    IF i > Len(names) THEN <<>>
    ELSE LET column == names[i]
             tableColumn == Split(column, ".")
         IN  (IF Len(tableColumn) = 1
              THEN <<table \o <<".">> \o column>> ELSE <<>>)
             \o (IF Len(tableColumn) = 2 THEN <<column>> ELSE <<>>)
             \o qualified(names, i + 1)

SelectCall(names) ==
    /\ Len(columns) + Len(names) <= MaxColumns
    /\ roomForCall
    /\ columns' = columns \o qualified(names, 1)
    /\ calls' = recorded("Select", names)
    /\ passed' = names
    /\ ret' = NoCall
    /\ UNCHANGED <<db, placeholderCount, queryType, table, joinTables,
                   returningColumns, values, returnValues, criteria,
                   orderBy, limit, offset, given>>

Select == \E names \in NameLists : SelectCall(names)

ReturningCall(names) ==
    /\ Len(returningColumns) + Len(names) <= MaxColumns
    /\ roomForCall
    /\ returningColumns' = returningColumns \o qualified(names, 1)
    /\ calls' = recorded("Returning", names)
    /\ passed' = names
    /\ ret' = NoCall
    /\ UNCHANGED <<db, placeholderCount, queryType, table, joinTables,
                   columns, values, returnValues, criteria, orderBy,
                   limit, offset, given>>

Returning == \E names \in NameLists : ReturningCall(names)

Limit ==
    \E a \in LimitArgs :
        /\ limit' = a[1]
        /\ offset' = a[2]
        /\ passed' = <<>>
        /\ ret' = NoCall
        /\ UNCHANGED <<db, placeholderCount, queryType, table, joinTables,
                       columns, returningColumns, values, returnValues,
                       criteria, orderBy, given, calls>>

Set ==
    \E names \in SetLists :
        /\ Len(columns) + Len(names) <= MaxColumns
        /\ roomForCall
        /\ columns' = columns \o names
        /\ calls' = recorded("Set", names)
        /\ passed' = <<>>
        /\ ret' = NoCall
        /\ UNCHANGED <<db, placeholderCount, queryType, table, joinTables,
                       returningColumns, values, returnValues, criteria,
                       orderBy, limit, offset, given>>

To ==
    \E vs \in ToLists :
        /\ Len(values) + Len(vs) <= MaxColumns
        /\ roomForCall
        /\ values' = values \o vs
        /\ calls' = recorded("To", vs)
        /\ passed' = <<>>
        /\ ret' = NoCall
        /\ UNCHANGED <<db, placeholderCount, queryType, table, joinTables,
                       columns, returningColumns, returnValues, criteria,
                       orderBy, limit, offset, given>>

\* Into as it was before Returning existed: always to values
IntoAlwaysToValues ==
    \E vs \in IntoLists :
        /\ Len(values) + Len(vs) <= MaxColumns
        /\ values' = values \o vs
        /\ UNCHANGED returnValues
        /\ roomForCall
        /\ calls' = recorded("Into", vs)
        /\ passed' = <<>>
        /\ ret' = NoCall
        /\ UNCHANGED <<db, placeholderCount, queryType, table, joinTables,
                       columns, returningColumns, criteria, orderBy, limit,
                       offset, given>>

Into ==
    \E vs \in IntoLists :
        /\ IF queryType = selectQry
           THEN /\ Len(values) + Len(vs) <= MaxColumns
                /\ values' = values \o vs
                /\ UNCHANGED returnValues
           ELSE /\ Len(returnValues) + Len(vs) <= MaxColumns
                /\ returnValues' = returnValues \o vs
                /\ UNCHANGED values
        /\ roomForCall
        /\ calls' = recorded("Into", vs)
        /\ passed' = <<>>
        /\ ret' = NoCall
        /\ UNCHANGED <<db, placeholderCount, queryType, table, joinTables,
                       columns, returningColumns, criteria, orderBy, limit,
                       offset, given>>

Join ==
    /\ Len(joinTables) < MaxJoins
    /\ joinTables' = Append(joinTables,
                            [joinType |-> <<"L","E","F","T">>,
                             table    |-> <<"u">>,
                             column   |-> <<"u",".","k">>,
                             fkey     |-> <<"t",".","i">>])
    /\ roomForCall
    /\ calls' = recorded("Join", <<>>)
    /\ passed' = <<>>
    /\ ret' = NoCall
    /\ UNCHANGED <<db, placeholderCount, queryType, table, columns,
                   returningColumns, values, returnValues, criteria, orderBy,
                   limit, offset, given>>

Where ==
    \E a \in WhereArgs :
        /\ Len(criteria) < MaxCriteria
        /\ criteria' = Append(criteria, newCriterion(<<"c">>, a[1], a[2], FALSE))
        /\ given' = Append(given, a[1])
        /\ roomForCall
        /\ calls' = recorded("Where", a)
        /\ passed' = <<>>
        /\ ret' = NoCall
        /\ UNCHANGED <<db, placeholderCount, queryType, table, joinTables,
                       columns, returningColumns, values, returnValues,
                       orderBy, limit, offset>>

OrWhere ==
    \E a \in OrWhereArgs :
        /\ Len(criteria) < MaxCriteria
        /\ criteria' = Append(criteria, newCriterion(<<"c">>, a[1], a[2], TRUE))
        /\ given' = Append(given, a[1])
        /\ roomForCall
        /\ calls' = recorded("OrWhere", a)
        /\ passed' = <<>>
        /\ ret' = NoCall
        /\ UNCHANGED <<db, placeholderCount, queryType, table, joinTables,
                       columns, returningColumns, values, returnValues,
                       orderBy, limit, offset>>

OrderBy ==
    /\ Len(orderBy) < MaxOrderBy
    /\ orderBy' = Append(orderBy, [column |-> <<"c">>, direction |-> ascending])
    /\ roomForCall
    /\ calls' = recorded("OrderBy", <<>>)
    /\ passed' = <<>>
    /\ ret' = NoCall
    /\ UNCHANGED <<db, placeholderCount, queryType, table, joinTables, columns,
                   returningColumns, values, returnValues, criteria, limit,
                   offset, given>>

OrderByDescending ==
    /\ Len(orderBy) < MaxOrderBy
    /\ orderBy' = Append(orderBy, [column |-> <<"d">>, direction |-> descending])
    /\ roomForCall
    /\ calls' = recorded("OrderByDescending", <<>>)
    /\ passed' = <<>>
    /\ ret' = NoCall
    /\ UNCHANGED <<db, placeholderCount, queryType, table, joinTables, columns,
                   returningColumns, values, returnValues, criteria, limit,
                   offset, given>>

\* GenerateQuery that hands the bound values over and forgets them
GenerateQueryUpToConsuming(cap) ==
    /\ placeholderCount <= cap
    /\ passed' = <<>>
    /\ LET r == generate(placeholderCount)
       IN  /\ placeholderCount' = r.count
           /\ ret' = [status |-> IF r.panic THEN "panic" ELSE "returned",
                      qry    |-> r.qry,
                      err    |-> r.err,
                      before |-> placeholderCount]
    /\ values' = <<>>
    /\ UNCHANGED <<db, queryType, table, joinTables, columns,
                   returningColumns, returnValues, criteria, orderBy,
                   limit, offset, given, calls>>

\* GenerateQuery, explored while placeholderCount is at most cap
GenerateQueryUpTo(cap) ==
    /\ placeholderCount <= cap
    /\ passed' = <<>>
    /\ LET r == generate(placeholderCount)
       IN  /\ placeholderCount' = r.count
           /\ ret' = [status |-> IF r.panic THEN "panic" ELSE "returned",
                      qry    |-> r.qry,
                      err    |-> r.err,
                      before |-> placeholderCount]
    /\ UNCHANGED <<db, queryType, table, joinTables, columns,
                   returningColumns, values, returnValues, criteria, orderBy,
                   limit, offset, given, calls>>

GenerateQuery == GenerateQueryUpTo(MaxPlaceholderCount)

----------------------------------------------------------------------------
(* Specifications *)

\* every call of the package
Next ==
    \/ ForDatabase
    \/ Select
    \/ Returning
    \/ Limit
    \/ Set
    \/ To
    \/ Into
    \/ Join
    \/ Where
    \/ OrWhere
    \/ OrderBy
    \/ OrderByDescending
    \/ GenerateQuery

Spec == Init /\ [][Next]_vars

\* the filter clause, with values that the mutation columns do not match
NextFilter ==
    \/ ForDatabase
    \/ To
    \/ Where
    \/ OrWhere
    \/ GenerateQuery

SpecFilter == Init /\ [][NextFilter]_vars

\* the operator check: the first criterion takes any of OperatorStrings
InitOperator == InitWhere({<<g, <<"w">>>> : g \in OperatorStrings})

NextOperator ==
    \/ ForDatabase
    \/ To
    \/ Where
    \/ OrWhere
    \/ GenerateQuery

SpecOperator == InitOperator /\ [][NextOperator]_vars

\* mutation and RETURNING, on a Builder with no criterion or one criterion
InitReturning ==
    \/ Init
    \/ InitWhere({<< <<"=">>, <<"w">> >>,
                  << <<"i","n">>, <<"w","w","w">> >>,
                  << <<"i","n">>, <<>> >>,
                  << <<"!","=">>, <<"w">> >>})

NextReturning ==
    \/ ForDatabase
    \/ Set
    \/ To
    \/ Returning
    \/ Into
    \/ GenerateQuery

SpecReturning == InitReturning /\ [][NextReturning]_vars

\* projection, joins, ordering and pagination, on a Builder with no
\* criterion or one criterion
InitSelect ==
    \/ Init
    \/ InitWhere({<< <<"=">>, <<"w">> >>})

NextSelect ==
    \/ Select
    \/ Into
    \/ Join
    \/ OrderBy
    \/ OrderByDescending
    \/ Limit
    \/ GenerateQuery

SpecSelect == InitSelect /\ [][NextSelect]_vars

\* generating again and again from one Builder, with one criterion
InitRepeat ==
    InitWhere({<< <<"=">>, <<"w">> >>,
               << <<"i","n">>, <<"w","w","w">> >>,
               << <<"B","E","T","W","E","E","N">>, <<"w","w">> >>})

NextRepeat ==
    \/ ForDatabase
    \/ Set
    \/ To
    \/ GenerateQueryUpTo(MaxRepeatedCount)

SpecRepeat == InitRepeat /\ [][NextRepeat]_vars

\* an UPDATE Builder whose appending calls are recorded in call order
InitOrder ==
    /\ queryType = updateQry
    /\ table = <<"t">>
    /\ db = MYSQL
    /\ placeholderCount = 0
    /\ joinTables = <<>>
    /\ columns = <<>>
    /\ returningColumns = <<>>
    /\ values = <<>>
    /\ returnValues = <<>>
    /\ criteria = <<>>
    /\ orderBy = <<>>
    /\ limit = 0
    /\ offset = 0
    /\ given = <<>>
    /\ passed = <<>>
    /\ ret = NoCall
    /\ calls = [on |-> TRUE, log |-> <<>>]

NextOrder ==
    \/ ForDatabase
    \/ Set
    \/ To
    \/ Where
    \/ GenerateQuery

SpecOrder == InitOrder /\ [][NextOrder]_vars

\* the calls that write what one statement kind or another does not render
NextIgnored ==
    \/ Join
    \/ OrWhere
    \/ OrderBy
    \/ Limit
    \/ Set
    \/ Returning
    \/ GenerateQuery

SpecIgnored == Init /\ [][NextIgnored]_vars

----------------------------------------------------------------------------
(* Reading a generated text, for the properties below *)

\* strings.Join(seq, ",")
RECURSIVE joined(_)
joined(seq) ==
    IF Len(seq) = 0 THEN <<>>
    ELSE IF Len(seq) = 1 THEN seq[1]
    ELSE seq[1] \o <<",">> \o joined(Tail(seq))

EndsWith(text, suffix) ==
    /\ Len(text) >= Len(suffix)
    /\ SubSeq(text, Len(text) - Len(suffix) + 1, Len(text)) = suffix

IsDigit(ch) == \E d \in 1..Len(Digits) : Digits[d] = ch

\* the decimal number written at position i of text (acc so far), 0 if none
RECURSIVE numberAt(_, _, _)
numberAt(text, i, acc) ==
    IF i <= Len(text) /\ IsDigit(text[i])
    THEN numberAt(text, i + 1,
                  acc * 10 + (CHOOSE d \in 0..9 : Digits[d + 1] = text[i]))
    ELSE acc

\* the placeholders of a text from position i on, left to right: the sigil
\* ("?", "$" or ":") and the number written after it (0 after "?")
RECURSIVE placeholdersFrom(_, _)
placeholdersFrom(text, i) ==
    IF i > Len(text) THEN <<>>
    ELSE IF text[i] = "?"
    THEN <<[sigil |-> "?", n |-> 0]>> \o placeholdersFrom(text, i + 1)
    ELSE IF text[i] = "$" \/ text[i] = ":"
    THEN <<[sigil |-> text[i], n |-> numberAt(text, i + 1, 0)]>>
           \o placeholdersFrom(text, i + 1)
    ELSE placeholdersFrom(text, i + 1)

placeholders(text) == placeholdersFrom(text, 1)

\* the nine operators of the list, as the claims spell them
Whitelist ==
    {<<"=">>, <<">">>, <<"<">>, <<">","=">>, <<"<","=">>, <<"<",">">>,
     <<"I","N">>, <<"B","E","T","W","E","E","N">>, <<"L","I","K","E">>}

Called == ret.status # "none"
Returned == ret.status = "returned"
Succeeded == ret.status = "returned" /\ ret.err = nil
Failed == ret.status = "returned" /\ ret.err # nil

ArityMatches == Len(columns) = Len(values)

\* the statement kind has a filter clause and the clause before it passes
FilterReached ==
    /\ queryType # insertQry
    /\ queryType \in {selectQry, updateQry} => ArityMatches

\* every check and every rendering of the filter clause goes through
FilterPasses ==
    \/ Len(criteria) = 0
    \/ /\ ~criteria[1].or
       /\ \A i \in 1..Len(criteria) :
            /\ criteria[i].operator \in Whitelist
            /\ criteria[i].operator = <<"I","N">>
                 => Len(criteria[i].values) >= 1

----------------------------------------------------------------------------
(* Properties *)

\* C1: whenever GenerateQuery returns a non-nil error, for any statement
\* kind and any configuration, the text it returns is the empty string.
ErrorComesWithEmptyText == Failed => ret.qry = <<>>

\* An UPDATE whose SET clause was rendered and whose RETURNING clause then
\* failed on the dialect.
ErrorComesWithEmptyTextWitness ==
    /\ Failed
    /\ queryType = updateQry
    /\ Len(columns) >= 1
    /\ ArityMatches
    /\ FilterPasses
    /\ ret.err = ErrDBEngineDoesNotSupportReturning

\* the parameter sequence the accessors return for the statement kind
boundValues ==
    CASE queryType = updateQry -> Values \o Criteria
      [] queryType = insertQry -> Values
      [] OTHER -> Criteria

\* C2: after a successful GenerateQuery on a fresh Builder the n-th
\* placeholder of the text stands for the n-th bound value of the accessors
\* (Values() then Criteria() for UPDATE, Values() for INSERT, Criteria() for
\* SELECT and DELETE): there are as many placeholders as bound values, and a
\* numbered placeholder carries its position, whatever number of values a
\* criterion was given.
PlaceholdersMatchBoundValues ==
    (Succeeded /\ ret.before = 0) =>
        LET ps == placeholders(ret.qry)
        IN  /\ Len(ps) = Len(boundValues)
            /\ db \in {POSTGRES, ORACLE}
                 => \A n \in 1..Len(ps) : ps[n].n = n

\* C3: on a fresh Builder the placeholders of a successfully generated text
\* are, left to right, $1,$2,...,$k for Postgres and :1,:2,...,:k for
\* Oracle, and every placeholder is a bare ? for MySQL, SQLite and the
\* default dialect.
PlaceholdersAreConsecutive ==
    (Succeeded /\ ret.before = 0) =>
        LET ps == placeholders(ret.qry)
        IN  \A n \in 1..Len(ps) :
                CASE db = POSTGRES -> ps[n] = [sigil |-> "$", n |-> n]
                  [] db = ORACLE   -> ps[n] = [sigil |-> ":", n |-> n]
                  [] OTHER         -> ps[n] = [sigil |-> "?", n |-> 0]

\* C4: GenerateQuery on a SELECT, INSERT or UPDATE Builder whose columns and
\* values differ in number returns the empty string and an
\* ErrBadColumnsValuesCombo carrying len(columns) and len(values).
ArityMismatchIsReported ==
    (Called /\ queryType \in {selectQry, insertQry, updateQry}
            /\ Len(columns) # Len(values)) =>
        /\ Returned
        /\ ret.qry = <<>>
        /\ ret.err = [type |-> "ErrBadColumnsValuesCombo",
                      columnCount |-> Len(columns),
                      valueCount |-> Len(values)]

\* An INSERT with one column and two values, a criterion with an operator
\* outside the list and a RETURNING column on the default dialect: three
\* clauses would fail, the arity error is the one returned.
ArityMismatchIsReportedWitness ==
    /\ Returned
    /\ queryType = insertQry
    /\ Len(columns) = 1
    /\ Len(values) = 2
    /\ Len(returningColumns) >= 1
    /\ ret.err.type = "ErrBadColumnsValuesCombo"

\* What GenerateQuery does with the filter clause once it reaches it, when a
\* criterion passes the operator check exactly if Spelling(the operator the
\* caller gave) is in the list and a failing check reports that spelling:
\* the first criterion that fails the check stops the generation with
\* ErrInvalidSqlOperator, unless an IN criterion without values stopped it
\* before; with no failing criterion no such error is returned.
OperatorCheckFollows(Spelling(_)) ==
    LET failing == {i \in 1..Len(criteria) : Spelling(given[i]) \notin Whitelist}
        stopping == {i \in 1..Len(criteria) :
                        /\ criteria[i].operator = <<"I","N">>
                        /\ Len(criteria[i].values) = 0}
    IN  IF failing = {}
        THEN ~(Returned /\ ret.err.type = "ErrInvalidSqlOperator")
        ELSE LET first == CHOOSE i \in failing : \A j \in failing : i <= j
             IN  IF \E j \in stopping : j < first
                 THEN ret.status = "panic"
                 ELSE /\ Returned
                      /\ ret.qry = <<>>
                      /\ ret.err = [type |-> "ErrInvalidSqlOperator",
                                    operator |-> Spelling(given[first])]

AsGiven(operator) == operator

\* C5 as claimed: a criterion passes the operator check if and only if the
\* operator string given by the caller is one of the nine listed; any other
\* string makes GenerateQuery return the empty string and an
\* ErrInvalidSqlOperator carrying that string.
OperatorCheckedAsGiven ==
    (Called /\ FilterReached /\ Len(criteria) > 0 /\ ~criteria[1].or)
        => OperatorCheckFollows(AsGiven)

\* C5 as amended: the check is made on the operator string converted to
\* upper case: a criterion passes if and only if the upper-cased string is
\* one of the nine listed, and otherwise GenerateQuery, on reaching the
\* criterion, returns the empty string and an ErrInvalidSqlOperator that
\* carries the upper-cased string.
OperatorCheckedInUpperCase ==
    (Called /\ FilterReached /\ Len(criteria) > 0 /\ ~criteria[1].or)
        => OperatorCheckFollows(ToUpper)

\* "like", given in lower case, passed the check and a second criterion was
\* rendered after it.
OperatorCheckedInUpperCaseWitness ==
    /\ Succeeded
    /\ FilterReached
    /\ Len(given) = 2
    /\ given[1] = <<"l","i","k","e">>
    /\ Len(placeholders(ret.qry)) >= 2

\* C6 as claimed: on every Builder whose first criterion was added with
\* OrWhere, GenerateQuery returns the empty string and ErrFirstCriterionIsOr.
FirstOrIsAlwaysReported ==
    (Called /\ Len(criteria) > 0 /\ criteria[1].or) =>
        /\ Returned
        /\ ret.qry = <<>>
        /\ ret.err = ErrFirstCriterionIsOr

\* C6 as amended: on every DELETE Builder, and on every SELECT or UPDATE
\* Builder with as many columns as values, whose first criterion was added
\* with OrWhere (whatever criteria follow it), GenerateQuery returns the
\* empty string and ErrFirstCriterionIsOr; a SELECT or UPDATE Builder whose
\* columns and values differ in number returns the arity error instead, and
\* an INSERT Builder, which has no filter clause, never returns
\* ErrFirstCriterionIsOr.
FirstOrIsReportedByFilter ==
    (Called /\ Len(criteria) > 0 /\ criteria[1].or) =>
        /\ Returned
        /\ ret.qry = <<>> \/ queryType = insertQry
        /\ IF FilterReached
           THEN ret.err = ErrFirstCriterionIsOr
           ELSE ret.err # ErrFirstCriterionIsOr

\* A SELECT whose first criterion came from OrWhere with an operator outside
\* the list, followed by a second criterion.
FirstOrIsReportedByFilterWitness ==
    /\ Returned
    /\ queryType = selectQry
    /\ Len(criteria) = 2
    /\ criteria[1].or
    /\ criteria[1].operator = <<"!","=">>
    /\ ret.err = ErrFirstCriterionIsOr

\* the clauses that come before RETURNING in the statement generate
\* without an error
EarlierClausesPass ==
    CASE queryType = insertQry -> ArityMatches
      [] queryType = updateQry -> ArityMatches /\ FilterPasses
      [] queryType = deleteQry -> FilterPasses
      [] OTHER -> FALSE

ReturningText ==
    <<" ","R","E","T","U","R","N","I","N","G"," ">> \o joined(returningColumns)

\* C7 as claimed: on every Builder with at least one returning column,
\* GenerateQuery fails with ErrDBEngineDoesNotSupportReturning on MySQL,
\* SQLite and the default dialect, and on Postgres and Oracle with as many
\* return values as returning columns it succeeds with a text that ends
\* with " RETURNING " and the returning columns joined by ",".
ReturningAlwaysDecides ==
    (Called /\ Len(returningColumns) >= 1) =>
        /\ db \in {MYSQL, SQLITE}
             => Returned /\ ret.err = ErrDBEngineDoesNotSupportReturning
        /\ (db \in {POSTGRES, ORACLE}
                /\ Len(returningColumns) = Len(returnValues))
             => Succeeded /\ EndsWith(ret.qry, ReturningText)

\* C7 as amended: on every INSERT, UPDATE or DELETE Builder with at least
\* one returning column: on MySQL, SQLite and the default dialect
\* GenerateQuery never succeeds, and it fails with
\* ErrDBEngineDoesNotSupportReturning, whatever the number of return
\* values, whenever the clauses before RETURNING generate without an error;
\* on Postgres and Oracle with as many return values as returning columns
\* it succeeds whenever the clauses before RETURNING generate without an
\* error, and the text then ends with " RETURNING " and the returning
\* columns joined by ",".  When an earlier clause fails, its error is the
\* one returned.  A SELECT Builder has no RETURNING clause: its returning
\* columns never cause an error and never appear in the text.
ReturningDecidesAfterEarlierClauses ==
    (Called /\ Len(returningColumns) >= 1) =>
        IF queryType = selectQry
        THEN /\ Returned => ret.err # ErrDBEngineDoesNotSupportReturning
             /\ Succeeded => ~EndsWith(ret.qry, ReturningText)
        ELSE /\ db \in {MYSQL, SQLITE} =>
                /\ ~Succeeded
                /\ IF EarlierClausesPass
                   THEN Returned
                        /\ ret.err = ErrDBEngineDoesNotSupportReturning
                   ELSE ~(Returned
                          /\ ret.err = ErrDBEngineDoesNotSupportReturning)
             /\ (db \in {POSTGRES, ORACLE}
                     /\ Len(returningColumns) = Len(returnValues)) =>
                IF EarlierClausesPass
                THEN Succeeded /\ EndsWith(ret.qry, ReturningText)
                ELSE ~Succeeded

\* An UPDATE on SQLite with one returning column and no return value,
\* after a filter that passes: the dialect error, not the arity error.
ReturningDecidesAfterEarlierClausesWitness ==
    /\ Returned
    /\ queryType = updateQry
    /\ db = SQLITE
    /\ Len(criteria) = 1
    /\ Len(returningColumns) = 1
    /\ Len(returnValues) = 0
    /\ ret.err = ErrDBEngineDoesNotSupportReturning

\* the text C8 describes
SelectFromText ==
    <<"S","E","L","E","C","T"," ">> \o joined(columns)
        \o <<" ","F","R","O","M"," ">> \o table

\* C8 as claimed: on every SELECT Builder with as many columns as values
\* and no filter criteria, GenerateQuery succeeds and returns exactly
\* "SELECT <cols> FROM <table>".
SelectWithoutCriteriaIsBare ==
    (Called /\ queryType = selectQry /\ ArityMatches /\ Len(criteria) = 0) =>
        Succeeded /\ ret.qry = SelectFromText

\* C8 as amended: on every SELECT Builder with as many columns as values,
\* no filter criteria, no joins, no order specs and limit 0, GenerateQuery
\* succeeds and returns exactly "SELECT <cols> FROM <table>", the columns
\* joined by a single comma.
SelectWithoutClausesIsBare ==
    (Called /\ queryType = selectQry /\ ArityMatches /\ Len(criteria) = 0
            /\ Len(joinTables) = 0 /\ Len(orderBy) = 0 /\ limit = 0) =>
        Succeeded /\ ret.qry = SelectFromText

\* Two columns, two targets and an offset without a limit.
SelectWithoutClausesIsBareWitness ==
    /\ Succeeded
    /\ queryType = selectQry
    /\ Len(columns) = 2
    /\ Len(criteria) = 0
    /\ Len(joinTables) = 0
    /\ Len(orderBy) = 0
    /\ limit = 0
    /\ offset > 0

\* what C9 says a call stores for the names: one entry per name, qualified
\* with the table when the name has no ".", the name itself otherwise
RECURSIVE oneEntryPerName(_)
oneEntryPerName(names) ==
    IF Len(names) = 0 THEN <<>>
    ELSE <<IF \E k \in 1..Len(Head(names)) : Head(names)[k] = "."
           THEN Head(names)
           ELSE table \o <<".">> \o Head(names)>>
           \o oneEntryPerName(Tail(names))

\* C9: Select and Returning append exactly one entry per given name, in
\* call order, to columns and returningColumns: "<table>.<name>" for a name
\* without ".", the name verbatim for a name with one "." or with more.
OneEntryPerName ==
    [][/\ SelectCall(passed')
          => columns' = columns \o oneEntryPerName(passed')
       /\ ReturningCall(passed')
          => returningColumns' = returningColumns \o oneEntryPerName(passed')
      ]_vars

\* C10: an IN criterion renders one placeholder per supplied value, and with
\* no value GenerateQuery still returns normally, the criterion rendered as
\* "<column> IN ()".  Stated for a DELETE Builder whose only criterion is an
\* IN criterion and that has no returning column.
InRendersOnePlaceholderPerValue ==
    (Called /\ queryType = deleteQry /\ Len(returningColumns) = 0
            /\ Len(criteria) = 1 /\ ~criteria[1].or
            /\ criteria[1].operator = <<"I","N">>) =>
        /\ Succeeded
        /\ Len(placeholders(ret.qry)) = Len(criteria[1].values)
        /\ Len(criteria[1].values) = 0
             => EndsWith(ret.qry,
                         criteria[1].column \o <<" ","I","N"," ","(",")">>)

----------------------------------------------------------------------------
\* the number of positions of text where sub starts
RECURSIVE occurrencesFrom(_, _, _)
occurrencesFrom(text, sub, i) ==
    IF i + Len(sub) - 1 > Len(text) THEN 0
    ELSE (IF SubSeq(text, i, i + Len(sub) - 1) = sub THEN 1 ELSE 0)
           + occurrencesFrom(text, sub, i + 1)

Occurrences(text, sub) == occurrencesFrom(text, sub, 1)

\* the pagination clause as the three cases of the claim give it
PaginationText ==
    CASE limit = 0 -> <<>>
      [] limit > 0 /\ offset = 0 ->
           <<" ","L","I","M","I","T"," ">> \o FormatInt(limit)
      [] limit > 0 /\ offset > 0 ->
           <<" ","L","I","M","I","T"," ">> \o FormatInt(limit)
             \o <<",">> \o FormatInt(offset)

\* C11: the text of a successfully generated SELECT ends with the
\* pagination clause of the last Limit(limit, offset) call: nothing when
\* limit is 0 (also with an offset), " LIMIT <limit>" when limit > 0 and
\* offset is 0, " LIMIT <limit>,<offset>" when both are > 0; the text has no
\* other LIMIT, so the clause is the last one.
PaginationIsLastClause ==
    (Succeeded /\ queryType = selectQry)
        => /\ EndsWith(ret.qry, PaginationText)
           /\ Occurrences(ret.qry, <<" ","L","I","M","I","T"," ">>)
                = (IF limit > 0 THEN 1 ELSE 0)

\* A SELECT with an ORDER BY clause generated after Limit(10, 12).
PaginationIsLastClauseWitness ==
    /\ Succeeded
    /\ queryType = selectQry
    /\ limit = 10
    /\ offset = 12
    /\ Len(orderBy) >= 1
    /\ EndsWith(ret.qry, <<" ","L","I","M","I","T"," ","1","0",",","1","2">>)

----------------------------------------------------------------------------
\* the arguments of To are the atoms "v", those of Into the atoms "p"
OnlyArgumentsOf(lists, vs) ==
    \A i \in 1..Len(vs) : \E l \in lists : \E j \in 1..Len(l) : vs[i] = l[j]

\* what a call may do to values and returnValues: nothing, what To does, or
\* what Into does for the kind of the Builder
RoutedStep ==
    \/ UNCHANGED <<values, returnValues>>
    \/ \E vs \in ToLists : values' = values \o vs /\ UNCHANGED returnValues
    \/ \E vs \in IntoLists :
          IF queryType = selectQry
          THEN values' = values \o vs /\ UNCHANGED returnValues
          ELSE returnValues' = returnValues \o vs /\ UNCHANGED values

\* C12: Into appends its arguments to values and leaves returnValues alone
\* on a SELECT Builder, and appends them to returnValues and leaves values
\* alone on an INSERT, UPDATE or DELETE Builder; so Values() of a non-SELECT
\* Builder holds only arguments of To, and ReturningValues() of a SELECT
\* Builder is always empty.
IntoRoutesByKind ==
    /\ [](/\ queryType # selectQry => OnlyArgumentsOf(ToLists, Values)
          /\ queryType # selectQry => OnlyArgumentsOf(IntoLists, ReturningValues)
          /\ queryType = selectQry => ReturningValues = <<>>)
    /\ [][RoutedStep]_vars

\* An INSERT Builder after To with one value and Into with two targets.
IntoRoutesByKindWitness ==
    /\ queryType = insertQry
    /\ Values = <<"v">>
    /\ ReturningValues = <<"p", "p">>

----------------------------------------------------------------------------
\* a successful generation on a fresh Postgres or Oracle Builder, with at
\* least one placeholder in its text, directly followed by a second
\* successful generation
GeneratedTwice ==
    /\ Succeeded
    /\ ret.before = 0
    /\ db \in {POSTGRES, ORACLE}
    /\ Len(placeholders(ret.qry)) >= 1
    /\ ret'.status = "returned"
    /\ ret'.err = nil

\* C13: placeholderCount starts at 0, never decreases, and is not reset
\* between generations: when the first successful generation on a Postgres
\* or Oracle Builder emitted k >= 1 placeholders, the placeholder numbers of
\* the text of a second generation start at k+1, and the two texts differ.
CounterCarriesOverByTextCount ==
    /\ placeholderCount = 0
    /\ [][/\ placeholderCount' >= placeholderCount
          /\ GeneratedTwice
               => /\ placeholders(ret'.qry)[1].n
                       = Len(placeholders(ret.qry)) + 1
                  /\ ret'.qry # ret.qry]_vars

----------------------------------------------------------------------------
\* C14: a GenerateQuery call, whether it succeeds, fails or panics, leaves
\* every Builder field other than placeholderCount as it was (kind, table,
\* dialect, columns, values, returningColumns, returnValues, joins,
\* criteria, orderBy, limit, offset), and with them the results of Values(),
\* Criteria() and ReturningValues().
GenerateQueryOnlyAdvancesCounter ==
    [][ret'.status # "none"
         => /\ UNCHANGED <<queryType, table, db, columns, values,
                           returningColumns, returnValues, joinTables,
                           criteria, orderBy, limit, offset>>
            /\ Values' = Values
            /\ Criteria' = Criteria
            /\ ReturningValues' = ReturningValues]_vars

\* A generation that advanced the counter on a Builder with columns, values,
\* a criterion, returning columns and return values.
GenerateQueryOnlyAdvancesCounterWitness ==
    /\ Returned
    /\ placeholderCount > ret.before
    /\ Len(columns) >= 1
    /\ Len(Values) >= 1
    /\ Len(Criteria) >= 1
    /\ Len(returningColumns) >= 1
    /\ Len(ReturningValues) >= 1

----------------------------------------------------------------------------
\* C15: the counter advances by exactly one per placeholder token emitted:
\* a successful generation whose text contains k placeholders has raised
\* placeholderCount by exactly k, also when the filter has IN criteria.
CounterCountsRenderedTokens ==
    Succeeded => placeholderCount - ret.before = Len(placeholders(ret.qry))

----------------------------------------------------------------------------
\* the error of criterion i on its own: a leading OR, or an operator outside
\* the list
CriterionError(i) ==
    IF i = 1 /\ criteria[i].or THEN ErrFirstCriterionIsOr
    ELSE IF criteria[i].operator \notin Whitelist
    THEN NewInvalidOperatorError(criteria[i].operator)
    ELSE nil

\* the error of the filter clause: that of its first failing criterion
FilterError ==
    IF \A i \in 1..Len(criteria) : CriterionError(i) = nil THEN nil
    ELSE CriterionError(CHOOSE i \in 1..Len(criteria) :
                          /\ CriterionError(i) # nil
                          /\ \A j \in 1..(i - 1) : CriterionError(j) = nil)

\* the first error of a sequence of clause errors, nil if there is none
RECURSIVE FirstError(_)
FirstError(errs) ==
    IF Len(errs) = 0 THEN nil
    ELSE IF Head(errs) # nil THEN Head(errs)
    ELSE FirstError(Tail(errs))

\* the errors of the clauses of the statement kind, in assembly order (the
\* clauses that cannot fail left out)
ClauseErrors ==
    CASE queryType = selectQry -> <<generateSelectClause.err, FilterError>>
      [] queryType = insertQry ->
           <<generateInsertClause(0).err, generateReturningClause.err>>
      [] queryType = updateQry ->
           <<generateUpdateClause(0).err, FilterError,
             generateReturningClause.err>>
      [] queryType = deleteQry -> <<FilterError, generateReturningClause.err>>

\* C16: a GenerateQuery call that returns gives the error of the earliest
\* failing clause in the assembly order of the statement kind (SELECT:
\* projection, filter; INSERT: mutation, RETURNING; UPDATE: mutation,
\* filter, RETURNING; DELETE: filter, RETURNING), and nil when no clause
\* fails.
EarliestClauseErrorIsReturned ==
    Returned => ret.err = FirstError(ClauseErrors)

\* An UPDATE on MySQL with an arity mismatch, an operator outside the list
\* and a returning column: the arity error is the one returned.
EarliestClauseErrorIsReturnedWitness ==
    /\ Failed
    /\ queryType = updateQry
    /\ ~ArityMatches
    /\ Len(criteria) >= 1
    /\ FilterError # nil
    /\ generateReturningClause.err = ErrDBEngineDoesNotSupportReturning
    /\ ret.err = NewBadColumnsValuesComboError(Len(columns), Len(values))

----------------------------------------------------------------------------
\* what the recorded calls from the i-th on append to columns, to values and
\* to criteria, each taken in call order
RECURSIVE columnsOfCalls(_)
columnsOfCalls(i) ==
    IF i > Len(calls.log) THEN <<>>
    ELSE (CASE calls.log[i].op = "Set" -> calls.log[i].args
            [] calls.log[i].op = "Select" -> qualified(calls.log[i].args, 1)
            [] OTHER -> <<>>)
           \o columnsOfCalls(i + 1)

RECURSIVE valuesOfCalls(_)
valuesOfCalls(i) ==
    IF i > Len(calls.log) THEN <<>>
    ELSE (CASE calls.log[i].op = "To" -> calls.log[i].args
            [] calls.log[i].op = "Into" /\ queryType = selectQry ->
                 calls.log[i].args
            [] OTHER -> <<>>)
           \o valuesOfCalls(i + 1)

RECURSIVE criteriaOfCalls(_)
criteriaOfCalls(i) ==
    IF i > Len(calls.log) THEN <<>>
    ELSE (CASE calls.log[i].op = "Where" ->
                 <<newCriterion(<<"c">>, calls.log[i].args[1],
                                calls.log[i].args[2], FALSE)>>
            [] calls.log[i].op = "OrWhere" ->
                 <<newCriterion(<<"c">>, calls.log[i].args[1],
                                calls.log[i].args[2], TRUE)>>
            [] OTHER -> <<>>)
           \o criteriaOfCalls(i + 1)

\* the SET placeholders of an UPDATE text are numbered 1..m and the filter
\* placeholders start at m+1, m the number of columns
NumberedInClauseOrder(text) ==
    LET ps == placeholders(text)
        m == Len(columns)
    IN  /\ Len(ps) >= m
        /\ \A i \in 1..m : ps[i].n = i
        /\ Len(criteria) >= 1 => (Len(ps) > m /\ ps[m + 1].n = m + 1)

\* C17: the Builder reached by a sequence of Set, To and Where calls depends
\* only on what the calls append to each sequence, taken per sequence in
\* call order, not on the order of calls on different sequences; the
\* result of GenerateQuery is a function of that Builder, so the same calls
\* made in different relative orders give the same text, error and accessor
\* results; and in the text of an UPDATE for Postgres the SET placeholders
\* are numbered $1..$m and the WHERE placeholders start at $m+1.
CallOrderAcrossSequencesIsIrrelevant ==
    calls.on
        => /\ columns = columnsOfCalls(1)
           /\ Values = valuesOfCalls(1)
           /\ criteria = criteriaOfCalls(1)
           /\ Called
                => /\ ret.qry = generate(ret.before).qry
                   /\ ret.err = generate(ret.before).err
           /\ (Succeeded /\ queryType = updateQry /\ db = POSTGRES
                 /\ ret.before = 0)
                => NumberedInClauseOrder(ret.qry)

\* Where called before Set and To on an UPDATE Builder for Postgres: the
\* text is the one the calls give in the order Set, To, Where.
CallOrderAcrossSequencesIsIrrelevantWitness ==
    /\ calls.on
    /\ Len(calls.log) = 3
    /\ calls.log[1].op = "Where"
    /\ Succeeded
    /\ ret.qry = <<"U","P","D","A","T","E"," ","t"," ","S","E","T"," ",
                   "c","=","$","1"," ","W","H","E","R","E"," ",
                   "c","=","$","2">>

----------------------------------------------------------------------------
\* the criteria from the i-th on, in the order they were added, each written
\* as the filter clause writes a criterion, the later ones after " OR " when
\* added with OrWhere and after " AND " when added with Where
RECURSIVE criteriaInOrder(_, _)
criteriaInOrder(i, count) ==
    IF i > Len(criteria) THEN <<>>
    ELSE LET ps == operands(i, count)
         IN  (IF i = 1 THEN <<>>
              ELSE IF criteria[i].or THEN <<" ","O","R"," ">>
              ELSE <<" ","A","N","D"," ">>)
               \o comparison(i) \o ps.qry
               \o criteriaInOrder(i + 1, ps.count)

\* the counter when the filter clause starts: an UPDATE has written its SET
\* clause
CountBeforeFilter ==
    ret.before + (IF queryType = updateQry THEN Len(columns) ELSE 0)

\* the later criteria added with OrWhere, those added with Where, and the
\* criteria with BETWEEN
LaterWithOr == {i \in 2..Len(criteria) : criteria[i].or}
LaterWithAnd == {i \in 2..Len(criteria) : ~criteria[i].or}
WithBetween ==
    {i \in 1..Len(criteria) :
        criteria[i].operator = <<"B","E","T","W","E","E","N">>}

\* C18: in a successfully generated WHERE clause the criteria stand in the
\* order they were added, nothing but " WHERE " before the first, and before
\* every later one exactly " OR " if it was added with OrWhere and " AND "
\* if it was added with Where; the text has len(criteria) - 1 combinators
\* (the AND inside a BETWEEN is no combinator).
CombinatorsFollowTheCalls ==
    (Succeeded /\ queryType # insertQry /\ Len(criteria) >= 1)
        => /\ Occurrences(ret.qry,
                          <<" ","W","H","E","R","E"," ">>
                            \o criteriaInOrder(1, CountBeforeFilter)) = 1
           /\ Occurrences(ret.qry, <<" ","O","R"," ">>)
                = Cardinality(LaterWithOr)
           /\ Occurrences(ret.qry, <<" ","A","N","D"," ">>)
                = Cardinality(LaterWithAnd) + Cardinality(WithBetween)
           /\ Cardinality(LaterWithOr) + Cardinality(LaterWithAnd)
                = Len(criteria) - 1

\* A SELECT whose second criterion was added with OrWhere.
CombinatorsFollowTheCallsWitness ==
    /\ Succeeded
    /\ queryType = selectQry
    /\ Len(criteria) = 2
    /\ criteria[2].or
    /\ Occurrences(ret.qry, <<" ","O","R"," ">>) = 1

----------------------------------------------------------------------------
\* C19: a GenerateQuery call that returns an error leaves placeholderCount
\* at the value it had before the call.
FailureLeavesCounter == Failed => placeholderCount = ret.before

----------------------------------------------------------------------------
\* a step that leaves alone whatever the statement kind renders or checks,
\* and the counter: INSERT may differ in joins, criteria, orderBy and limit,
\* UPDATE in joins, orderBy and limit, DELETE in columns, values, orderBy
\* and limit, SELECT in returningColumns and returnValues
OnlyIgnoredFieldsChange ==
    /\ UNCHANGED <<queryType, table, db, placeholderCount>>
    /\ CASE queryType = insertQry ->
               UNCHANGED <<columns, values, returningColumns, returnValues>>
         [] queryType = updateQry ->
               UNCHANGED <<columns, values, criteria, returningColumns,
                           returnValues>>
         [] queryType = deleteQry ->
               UNCHANGED <<joinTables, criteria, returningColumns,
                           returnValues>>
         [] queryType = selectQry ->
               UNCHANGED <<columns, values, joinTables, criteria, orderBy,
                           limit, offset>>

\* C20: two Builders of the same kind that differ only in fields the kind
\* does not render give the same result of GenerateQuery (text, error,
\* counter): INSERT ignores joins, criteria, orderBy and limit, UPDATE
\* ignores joins, orderBy and limit, DELETE ignores columns, values,
\* orderBy and limit, SELECT ignores returningColumns and returnValues.
UnrenderedFieldsHaveNoInfluence ==
    [][OnlyIgnoredFieldsChange
         => generate(placeholderCount)' = generate(placeholderCount)]_vars

\* An INSERT generated successfully with a join, a leading OrWhere whose
\* operator is outside the list, an order spec and a limit.
UnrenderedFieldsHaveNoInfluenceWitness ==
    /\ Succeeded
    /\ queryType = insertQry
    /\ Len(joinTables) >= 1
    /\ Len(criteria) >= 1
    /\ criteria[1].or
    /\ criteria[1].operator \notin Whitelist
    /\ Len(orderBy) >= 1
    /\ limit > 0
    /\ ret.qry = <<"I","N","S","E","R","T"," ","I","N","T","O"," ","t"," ",
                   "(",")"," ","V","A","L","U","E","S"," ","(",")">>

====
